---- MODULE Spec2Model ----
(***************************************************************************)
(* Trading journal: the trade store, the trade-creation handler and the    *)
(* report-producing handlers (GET /api/trades/analytics, its demo path and *)
(* the Performance Summary of GET /api/trades/export/excel), the update   *)
(* handler PUT /api/trades/[id] and the RealTimeMarketData WebSocket       *)
(* service.                                                                *)
(*                                                                         *)
(* db is the trade store keyed by entry instant, rows the same table in    *)
(* insertion order (SpecOrder), user the user record, response the last    *)
(* HTTP response and rt the state of the RealTimeMarketData instance       *)
(* (SpecSocket).  Spec covers creation and the reports, SpecUpdate         *)
(* creation and update.                                                    *)
(*                                                                         *)
(* JavaScript numbers are modelled as exact fractions n/d in lowest terms  *)
(* with d > 0; d = 0 encodes the non-finite values: 1/0 is Infinity, -1/0  *)
(* is -Infinity and 0/0 is NaN.  Money amounts of the trades are whole     *)
(* units, so sums stay integers and only ratios are fractions.  Rounding   *)
(* of IEEE doubles is not modelled.                                        *)
(***************************************************************************)
EXTENDS Integers, Sequences, FiniteSets, TLC

VARIABLES db, user, response, rows, rt

vars == <<db, user, response, rows, rt>>

\* an absent (null / undefined) value is the empty sequence, a present value v is <<v>>
Null == <<>>

Some(v) == <<v>>

Val(o) == o[1]

(***************************************************************************)
(* Bounds                                                                  *)
(***************************************************************************)
MaxTrades == 3

(***************************************************************************)
(* Numbers                                                                 *)
(***************************************************************************)
Abs(x) == IF x < 0 THEN 0 - x ELSE x

Max(a, b) == IF a > b THEN a ELSE b

Min(a, b) == IF a < b THEN a ELSE b

RECURSIVE GCD(_, _)
GCD(a, b) == IF b = 0 THEN a ELSE GCD(b, a % b)

NaN == [n |-> 0, d |-> 0]

PosInf == [n |-> 1, d |-> 0]

NegInf == [n |-> 0 - 1, d |-> 0]

\* the fraction n/d (d # 0) in lowest terms with a positive denominator
Q(n, d) ==
  LET g == GCD(Abs(n), Abs(d))
      s == IF d < 0 THEN 0 - 1 ELSE 1
  IN [n |-> (s * n) \div g, d |-> (s * d) \div g]

Num(i) == [n |-> i, d |-> 1]

Zero == Num(0)

Hundred == Num(100)

IsNaN(x) == x.n = 0 /\ x.d = 0

IsFinite(x) == x.d > 0

Sign(i) == IF i > 0 THEN 1 ELSE IF i < 0 THEN 0 - 1 ELSE 0

\* JavaScript x / y
Div(x, y) ==
  IF IsNaN(x) \/ IsNaN(y) THEN NaN
  ELSE IF x.d = 0 /\ y.d = 0 THEN NaN
  ELSE IF x.d = 0 THEN (IF y.n < 0 THEN [n |-> 0 - x.n, d |-> 0] ELSE x)
  ELSE IF y.d = 0 THEN Zero
  ELSE IF y.n = 0 THEN [n |-> Sign(x.n), d |-> 0]
  ELSE Q(x.n * y.d, x.d * y.n)

\* JavaScript x * y
Mul(x, y) ==
  IF IsNaN(x) \/ IsNaN(y) THEN NaN
  ELSE IF x.d = 0 \/ y.d = 0 THEN [n |-> Sign(x.n) * Sign(y.n), d |-> 0]
  ELSE Q(x.n * y.n, x.d * y.d)

\* JavaScript x + y
Add(x, y) ==
  IF IsNaN(x) \/ IsNaN(y) THEN NaN
  ELSE IF x.d = 0 /\ y.d = 0 THEN (IF x.n = y.n THEN x ELSE NaN)
  ELSE IF x.d = 0 THEN x
  ELSE IF y.d = 0 THEN y
  ELSE Q(x.n * y.d + y.n * x.d, x.d * y.d)

Neg(x) == [n |-> 0 - x.n, d |-> x.d]

Sub(x, y) == Add(x, Neg(y))

\* JavaScript x < y and x <= y (false whenever an operand is NaN)
Lt(x, y) == ~IsNaN(x) /\ ~IsNaN(y) /\ x # y /\ x.n * y.d <= y.n * x.d
               /\ (x.d = 0 /\ y.d = 0 => x.n < y.n)

Le(x, y) == ~IsNaN(x) /\ ~IsNaN(y) /\ (x = y \/ Lt(x, y))

\* Math.round(x * 100) / 100 : round half up to two decimals
Round2(x) ==
  IF ~IsFinite(x) THEN x
  ELSE LET s == Mul(x, Hundred)
           \* floor(s + 1/2) = floor((2n + d) / 2d); \div is the floor
           r == (2 * s.n + s.d) \div (2 * s.d)
       IN Q(r, 100)

(***************************************************************************)
(* Folds over sequences                                                    *)
(***************************************************************************)
RECURSIVE SumSeq(_)
SumSeq(s) == IF s = <<>> THEN 0 ELSE Head(s) + SumSeq(Tail(s))

(***************************************************************************)
(* Trades                                                                  *)
(*                                                                         *)
(* Entry instants range over the four instants of DateTable, in ascending  *)
(* order; a trade's entryDate is its index in the table, so comparing      *)
(* indices compares instants.  Each entry gives the UTC calendar fields    *)
(* the handlers read: date for toISOString().split('T')[0] as yyyymmdd, ym *)
(* for toISOString().substring(0, 7) as year*100 + month, hour for         *)
(* getHours() and day for getDay() (server zone UTC).                      *)
(* The store holds at most one trade per entry instant.                    *)
(***************************************************************************)
DateTable ==
  << [date |-> 20240701, ym |-> 202407, hour |-> 9,  day |-> 1],
     [date |-> 20240701, ym |-> 202407, hour |-> 15, day |-> 1],
     [date |-> 20240703, ym |-> 202407, hour |-> 9,  day |-> 3],
     [date |-> 20240802, ym |-> 202408, hour |-> 15, day |-> 5] >>

Dates == 1..Len(DateTable)

Setups == {"breakout", "momentum"}

P(side, exitPrice, exitDate, riskAmount, setupId) ==
  [side |-> side, entryPrice |-> 100, quantity |-> 1,
   exitPrice |-> exitPrice, exitDate |-> exitDate,
   riskAmount |-> riskAmount, setupId |-> setupId]

\* request bodies of POST /api/trades (entryDate is drawn separately);
\* exitDate, when present, is the number of hours after entryDate
Payloads ==
  { P("LONG",  Null,      Null,    Null,     Null),
    P("LONG",  Null,      Some(4), Null,     Null),
    P("LONG",  Some(130), Null,    Null,     Some("breakout")),
    P("LONG",  Some(200), Some(4), Some(50), Some("breakout")),
    P("LONG",  Some(50),  Some(4), Null,     Some("breakout")),
    P("LONG",  Some(130), Some(4), Some(50), Some("momentum")),
    P("SHORT", Some(150), Some(4), Some(50), Some("momentum")),
    P("LONG",  Some(100), Some(4), Some(50), Null),
    P("SHORT", Some(70),  Some(4), Null,     Null) }

\* tradeSchema.parse: the refinements on the exit fields
TradeSchemaOk(p) ==
  /\ p.entryPrice > 0
  /\ p.quantity > 0
  /\ (p.exitPrice # Null => Val(p.exitPrice) > 0)
  /\ (p.riskAmount # Null => Val(p.riskAmount) > 0)
  /\ ~(p.exitDate # Null /\ p.exitPrice = Null)
  /\ ~(p.exitDate # Null /\ Val(p.exitDate) < 0)

calculatePnL(side, entryPrice, exitPrice, quantity, entryFees, exitFees) ==
  LET pnl == IF side = "LONG"
             THEN (exitPrice - entryPrice) * quantity - entryFees - exitFees
             ELSE (entryPrice - exitPrice) * quantity - entryFees - exitFees
      investment == entryPrice * quantity + entryFees
  IN [pnl |-> pnl, pnlPercent |-> Mul(Div(Num(pnl), Num(investment)), Hundred)]

calculateRMultiple(pnl, riskAmount) ==
  IF riskAmount = 0 THEN Null ELSE Some(Div(Num(pnl), Num(riskAmount)))

\* calculatedFields of POST /api/trades, merged over the validated payload
CreatedTrade(p, entryDate) ==
  LET closed  == p.exitPrice # Null /\ p.exitDate # Null
      pnlData == calculatePnL(p.side, p.entryPrice, Val(p.exitPrice),
                              p.quantity, 0, 0)
  IN [entryDate |-> entryDate,
      side |-> p.side, entryPrice |-> p.entryPrice, quantity |-> p.quantity,
      exitPrice |-> p.exitPrice, exitDate |-> p.exitDate,
      riskAmount |-> p.riskAmount, setupId |-> p.setupId,
      isOpen |-> IF closed THEN FALSE ELSE p.exitPrice = Null,
      pnl |-> IF closed THEN Some(pnlData.pnl) ELSE Null,
      rMultiple |-> IF closed /\ p.riskAmount # Null
                    THEN calculateRMultiple(pnlData.pnl, Val(p.riskAmount))
                    ELSE Null]

\* trade.pnl || 0
PnlOf(t) == IF t.pnl = Null THEN 0 ELSE Val(t.pnl)

\* prisma.trade.findMany({ where: { isOpen: false }, orderBy: { entryDate: 'asc' } })
RECURSIVE FindFrom(_, _, _)
FindFrom(store, d, closedOnly) ==
  IF d > Len(DateTable) THEN <<>>
  ELSE (IF d \in DOMAIN store /\ (closedOnly => ~store[d].isOpen)
        THEN <<store[d]>>
        ELSE <<>>) \o FindFrom(store, d + 1, closedOnly)

findClosedTrades(store) == FindFrom(store, 1, TRUE)

findAllTrades(store) == FindFrom(store, 1, FALSE)

(***************************************************************************)
(* GET /api/trades/analytics                                               *)
(***************************************************************************)
\* mutant: a flat trade counts as a win
IsWinOrFlat(t) == PnlOf(t) >= 0

IsWin(t) == PnlOf(t) > 0

IsLoss(t) == PnlOf(t) < 0

\* mutant: the sum stops one trade short
SumPnlSkipsLast(trades) ==
  SumSeq([i \in 1..(Len(trades) - 1) |-> PnlOf(trades[i])])

RECURSIVE SumPnl(_)
SumPnl(trades) ==
  IF trades = <<>> THEN 0 ELSE PnlOf(Head(trades)) + SumPnl(Tail(trades))

RECURSIVE MaxPnl(_)
MaxPnl(trades) ==
  IF Len(trades) = 1 THEN PnlOf(trades[1])
  ELSE Max(PnlOf(Head(trades)), MaxPnl(Tail(trades)))

RECURSIVE MinPnl(_)
MinPnl(trades) ==
  IF Len(trades) = 1 THEN PnlOf(trades[1])
  ELSE Min(PnlOf(Head(trades)), MinPnl(Tail(trades)))

\* arr.reduce((sum, trade, _, arr) => sum + (trade.rMultiple || 0) / arr.length, 0)
RECURSIVE SumRMultiple(_, _, _)
SumRMultiple(arr, i, sum) ==
  IF i > Len(arr) THEN sum
  ELSE SumRMultiple(arr, i + 1,
                    Add(sum, Div(Val(arr[i].rMultiple), Num(Len(arr)))))

HasRMultiple(t) == t.rMultiple # Null

\* mutant: the rate is all or nothing, 100 as soon as one trade wins
WinRateAllOrNothing(wins, total) ==
  IF wins = 0 THEN Zero ELSE Hundred

\* winRate: (winningTrades.length / trades.length) * 100
WinRate(wins, total) == Mul(Div(Num(wins), Num(total)), Hundred)

\* averageWin: winningTrades.length > 0 ? totalWins / winningTrades.length : 0
AverageWin(totalWins, wins) ==
  IF wins > 0 THEN Div(Num(totalWins), Num(wins)) ELSE Zero

\* averageLoss: losingTrades.length > 0 ? totalLosses / losingTrades.length : 0
AverageLoss(totalLosses, losses) ==
  IF losses > 0 THEN Div(Num(totalLosses), Num(losses)) ELSE Zero

\* mutant: the ratio is inverted
ProfitFactorInverted(totalWins, totalLosses) ==
  IF totalLosses > 0 THEN Div(Num(totalLosses), Num(totalWins)) ELSE Zero

\* profitFactor: totalLosses > 0 ? totalWins / totalLosses : 0
ProfitFactor(totalWins, totalLosses) ==
  IF totalLosses > 0 THEN Div(Num(totalWins), Num(totalLosses)) ELSE Zero

\* mutant: the mean is taken over one trade too many
ExpectancyOffByOne(totalPnl, total) == Div(Num(totalPnl), Num(total + 1))

\* expectancy: totalPnl / trades.length
Expectancy(totalPnl, total) == Div(Num(totalPnl), Num(total))

\* const metrics = { ... }
Metrics(trades) ==
  LET winningTrades == SelectSeq(trades, IsWin)
      losingTrades  == SelectSeq(trades, IsLoss)
      totalPnl      == SumPnl(trades)
      totalWins     == SumPnl(winningTrades)
      totalLosses   == Abs(SumPnl(losingTrades))
  IN [totalTrades   |-> Len(trades),
      winningTrades |-> Len(winningTrades),
      losingTrades  |-> Len(losingTrades),
      winRate       |-> WinRate(Len(winningTrades), Len(trades)),
      totalPnl      |-> totalPnl,
      averageWin    |-> AverageWin(totalWins, Len(winningTrades)),
      averageLoss   |-> AverageLoss(totalLosses, Len(losingTrades)),
      largestWin    |-> MaxPnl(trades),
      largestLoss   |-> MinPnl(trades),
      profitFactor  |-> ProfitFactor(totalWins, totalLosses),
      expectancy    |-> Expectancy(totalPnl, Len(trades)),
      averageRMultiple |-> SumRMultiple(SelectSeq(trades, HasRMultiple), 1, Zero)]

\* mutant: a flat trade leaves the win and loss runs as they are
StreakStepFlatKeepsRuns(trades, i, st) ==
  LET pnl == PnlOf(trades[i])
  IN IF pnl > 0
     THEN [currentStreak     |-> st.currentStreak,
           currentWinStreak  |-> st.currentWinStreak + 1,
           currentLossStreak |-> 0,
           longestWinStreak  |-> Max(st.longestWinStreak, st.currentWinStreak + 1),
           longestLossStreak |-> st.longestLossStreak]
     ELSE IF pnl < 0
     THEN [currentStreak     |-> st.currentStreak,
           currentWinStreak  |-> 0,
           currentLossStreak |-> st.currentLossStreak + 1,
           longestWinStreak  |-> st.longestWinStreak,
           longestLossStreak |-> Max(st.longestLossStreak, st.currentLossStreak + 1)]
     ELSE st

\* one iteration of the streak loop, for index i (1-based) of trades
StreakStep(trades, i, st) ==
  LET pnl == PnlOf(trades[i])
      cs  == IF i = Len(trades) THEN Sign(pnl)
             ELSE LET prevPnl == PnlOf(trades[i + 1])
                  IN IF (pnl > 0 /\ prevPnl > 0) \/ (pnl < 0 /\ prevPnl < 0)
                     THEN st.currentStreak + (IF pnl > 0 THEN 1 ELSE 0 - 1)
                     ELSE Sign(pnl)
  IN IF pnl > 0
     THEN [currentStreak     |-> cs,
           currentWinStreak  |-> st.currentWinStreak + 1,
           currentLossStreak |-> 0,
           longestWinStreak  |-> Max(st.longestWinStreak, st.currentWinStreak + 1),
           longestLossStreak |-> st.longestLossStreak]
     ELSE IF pnl < 0
     THEN [currentStreak     |-> cs,
           currentWinStreak  |-> 0,
           currentLossStreak |-> st.currentLossStreak + 1,
           longestWinStreak  |-> st.longestWinStreak,
           longestLossStreak |-> Max(st.longestLossStreak, st.currentLossStreak + 1)]
     ELSE [currentStreak     |-> cs,
           currentWinStreak  |-> 0,
           currentLossStreak |-> 0,
           longestWinStreak  |-> st.longestWinStreak,
           longestLossStreak |-> st.longestLossStreak]

\* for (let i = trades.length - 1; i >= 0; i--)
RECURSIVE StreakLoop(_, _, _)
StreakLoop(trades, i, st) ==
  IF i < 1 THEN st ELSE StreakLoop(trades, i - 1, StreakStep(trades, i, st))

\* mutant: the longest streaks are read from the run counters
StreaksFromCounters(trades) ==
  LET st == StreakLoop(trades, Len(trades),
              [currentStreak |-> 0, longestWinStreak |-> 0, longestLossStreak |-> 0,
               currentWinStreak |-> 0, currentLossStreak |-> 0])
  IN [st EXCEPT !.longestWinStreak = st.currentWinStreak,
                !.longestLossStreak = st.currentLossStreak]

Streaks(trades) ==
  StreakLoop(trades, Len(trades),
             [currentStreak |-> 0, longestWinStreak |-> 0, longestLossStreak |-> 0,
              currentWinStreak |-> 0, currentLossStreak |-> 0])

\* mutant: the configured startingCapital is ignored
StartingBalanceDefaultOnly(u) == 10000

\* user.startingCapital || 10000
StartingBalance(u) ==
  IF u.startingCapital = Null \/ Val(u.startingCapital) = 0
  THEN 10000 ELSE Val(u.startingCapital)

\* mutant: every balance is the starting balance plus the trade's own pnl
EquityMapNoCarry(trades, index, runningBalance) ==
  [i \in 1..(Len(trades) - index + 1) |->
     [date     |-> DateTable[trades[index + i - 1].entryDate].date,
      balance  |-> runningBalance + PnlOf(trades[index + i - 1]),
      trades   |-> index + i - 1,
      pnl      |-> PnlOf(trades[index + i - 1]),
      drawdown |-> Zero]]

\* trades.map((trade, index) => { runningBalance += trade.pnl || 0; ... })
RECURSIVE EquityMap(_, _, _)
EquityMap(trades, index, runningBalance) ==
  IF index > Len(trades) THEN <<>>
  ELSE LET balance == runningBalance + PnlOf(trades[index])
       IN << [date     |-> DateTable[trades[index].entryDate].date,
              balance  |-> balance,
              trades   |-> index,
              pnl      |-> PnlOf(trades[index]),
              drawdown |-> Zero] >>
          \o EquityMap(trades, index + 1, balance)

\* point.drawdown = ((peak - point.balance) / peak) * 100
Drawdown(peak, balance) == Mul(Div(Num(peak - balance), Num(peak)), Hundred)

\* mutant: the peak is never raised
DrawdownLoopFixedPeak(curve, i, peak) ==
  [k \in 1..Len(curve) |->
     IF k < i THEN curve[k]
     ELSE [curve[k] EXCEPT !.drawdown = Drawdown(peak, curve[k].balance)]]

\* equityCurve.forEach(point => { if (point.balance > peak) peak = ...; ... })
RECURSIVE DrawdownLoop(_, _, _)
DrawdownLoop(curve, i, peak) ==
  IF i > Len(curve) THEN curve
  ELSE LET newPeak == IF curve[i].balance > peak THEN curve[i].balance ELSE peak
       IN DrawdownLoop([curve EXCEPT ![i].drawdown = Drawdown(newPeak, curve[i].balance)],
                       i + 1, newPeak)

EquityCurve(trades, u) ==
  DrawdownLoop(EquityMap(trades, 1, StartingBalance(u)), 1, StartingBalance(u))

\* a.month.localeCompare(b.month) < 0
MonthBefore(a, b) == a.month < b.month

\* (a, b) => b.pnl - a.pnl, negative
SetupBefore(a, b) == b.pnl - a.pnl < 0

\* entryDate ascending
EntryDateBefore(a, b) == a.entryDate < b.entryDate

\* compare(a, b) < 0 for the comparator named cmp
Before(cmp, a, b) ==
  IF cmp = "month" THEN MonthBefore(a, b)
  ELSE IF cmp = "setup" THEN SetupBefore(a, b)
  ELSE EntryDateBefore(a, b)

\* Array.prototype.sort is stable: x goes before the first element it
\* compares less than
RECURSIVE InsertStable(_, _, _, _)
InsertStable(sorted, x, cmp, i) ==
  IF i > Len(sorted) THEN Append(sorted, x)
  ELSE IF Before(cmp, x, sorted[i])
       THEN SubSeq(sorted, 1, i - 1) \o <<x>> \o SubSeq(sorted, i, Len(sorted))
       ELSE InsertStable(sorted, x, cmp, i + 1)

RECURSIVE SortFrom(_, _, _, _)
SortFrom(arr, cmp, i, sorted) ==
  IF i > Len(arr) THEN sorted
  ELSE SortFrom(arr, cmp, i + 1, InsertStable(sorted, arr[i], cmp, 1))

Sort(arr, cmp) == SortFrom(arr, cmp, 1, <<>>)

\* acc.find(item => item.month === monthKey): its index, 0 if none
RECURSIVE FindMonth(_, _, _)
FindMonth(acc, monthKey, i) ==
  IF i > Len(acc) THEN 0
  ELSE IF acc[i].month = monthKey THEN i ELSE FindMonth(acc, monthKey, i + 1)

\* acc.find(item => item.setupId === trade.setup.id): its index, 0 if none
RECURSIVE FindSetup(_, _, _)
FindSetup(acc, setupId, i) ==
  IF i > Len(acc) THEN 0
  ELSE IF acc[i].setupId = setupId THEN i ELSE FindSetup(acc, setupId, i + 1)

\* mutant: every trade opens a bucket of its own
MonthlyReduceAlwaysPush(trades, i, acc) ==
  acc \o [k \in 1..(Len(trades) - i + 1) |->
            [month  |-> DateTable[trades[i + k - 1].entryDate].ym,
             pnl    |-> PnlOf(trades[i + k - 1]),
             trades |-> 1]]

\* monthlyPnl = trades.reduce(...)
RECURSIVE MonthlyReduce(_, _, _)
MonthlyReduce(trades, i, acc) ==
  IF i > Len(trades) THEN acc
  ELSE LET monthKey == DateTable[trades[i].entryDate].ym
           existing == FindMonth(acc, monthKey, 1)
       IN MonthlyReduce(trades, i + 1,
            IF existing # 0
            THEN [acc EXCEPT ![existing].pnl = @ + PnlOf(trades[i]),
                             ![existing].trades = @ + 1]
            ELSE Append(acc, [month |-> monthKey, pnl |-> PnlOf(trades[i]),
                              trades |-> 1]))

MonthlyPnl(trades) == Sort(MonthlyReduce(trades, 1, <<>>), "month")

\* timeAnalysis.monthly (monthName is left out)
MonthlyTime(monthlyPnl) ==
  [i \in 1..Len(monthlyPnl) |->
     [month   |-> monthlyPnl[i].month % 100,
      year    |-> monthlyPnl[i].month \div 100,
      trades  |-> monthlyPnl[i].trades,
      pnl     |-> monthlyPnl[i].pnl,
      winRate |-> Zero]]

\* mutant: a trade without setup is not skipped but added to the first group
RECURSIVE SetupReduceKeepsUnset(_, _, _)
SetupReduceKeepsUnset(trades, i, acc) ==
  IF i > Len(trades) THEN acc
  ELSE LET trade == trades[i]
           existing == IF trade.setupId = Null THEN Min(1, Len(acc))
                       ELSE FindSetup(acc, Val(trade.setupId), 1)
           tradePnl == PnlOf(trade)
           wins == IF existing = 0 THEN 0
                   ELSE acc[existing].wins + (IF tradePnl > 0 THEN 1 ELSE 0)
       IN SetupReduceKeepsUnset(trades, i + 1,
            IF existing # 0
            THEN [acc EXCEPT ![existing].trades = @ + 1,
                             ![existing].pnl = @ + tradePnl,
                             ![existing].wins = wins,
                             ![existing].winRate =
                                Mul(Div(Num(wins), Num(acc[existing].trades + 1)),
                                    Hundred)]
            ELSE IF trade.setupId = Null THEN acc
            ELSE Append(acc,
                   [setupId |-> Val(trade.setupId),
                    trades  |-> 1,
                    wins    |-> IF tradePnl > 0 THEN 1 ELSE 0,
                    pnl     |-> tradePnl,
                    winRate |-> IF tradePnl > 0 THEN Hundred ELSE Zero,
                    averageRMultiple |-> IF trade.rMultiple = Null THEN Zero
                                         ELSE Val(trade.rMultiple),
                    expectancy |-> Num(tradePnl)]))

\* setupAnalysis = trades.reduce(...) (setupName is left out)
RECURSIVE SetupReduce(_, _, _)
SetupReduce(trades, i, acc) ==
  IF i > Len(trades) THEN acc
  ELSE IF trades[i].setupId = Null THEN SetupReduce(trades, i + 1, acc)
  ELSE LET trade == trades[i]
           existing == FindSetup(acc, Val(trade.setupId), 1)
           tradePnl == PnlOf(trade)
           wins == IF existing = 0 THEN 0
                   ELSE acc[existing].wins + (IF tradePnl > 0 THEN 1 ELSE 0)
       IN SetupReduce(trades, i + 1,
            IF existing # 0
            THEN [acc EXCEPT ![existing].trades = @ + 1,
                             ![existing].pnl = @ + tradePnl,
                             ![existing].wins = wins,
                             ![existing].winRate =
                                Mul(Div(Num(wins), Num(acc[existing].trades + 1)),
                                    Hundred)]
            ELSE Append(acc,
                   [setupId |-> Val(trade.setupId),
                    trades  |-> 1,
                    wins    |-> IF tradePnl > 0 THEN 1 ELSE 0,
                    pnl     |-> tradePnl,
                    winRate |-> IF tradePnl > 0 THEN Hundred ELSE Zero,
                    averageRMultiple |-> IF trade.rMultiple = Null THEN Zero
                                         ELSE Val(trade.rMultiple),
                    expectancy |-> Num(tradePnl)]))

SetupAnalysis(trades) == Sort(SetupReduce(trades, 1, <<>>), "setup")

\* mutant: the hourly array is one bucket short
HourlyInitShort ==
  [i \in 1..23 |-> [hour |-> i - 1, trades |-> 0, pnl |-> 0, wins |-> 0,
                    winRate |-> Zero]]

\* Array.from({ length: 24 }, ...) and Array.from({ length: 7 }, ...);
\* bucket h of hourly is at index h + 1 (dayName is left out)
HourlyInit ==
  [i \in 1..24 |-> [hour |-> i - 1, trades |-> 0, pnl |-> 0, wins |-> 0,
                    winRate |-> Zero]]

DailyInit ==
  [i \in 1..7 |-> [day |-> i - 1, trades |-> 0, pnl |-> 0, wins |-> 0,
                   winRate |-> Zero]]

\* mutant: the bucket's count is set, not incremented
BucketAddSetsCount(buckets, key, pnl) ==
  LET b    == buckets[key + 1]
      wins == b.wins + (IF pnl > 0 THEN 1 ELSE 0)
  IN [buckets EXCEPT ![key + 1] =
        [b EXCEPT !.trades = 1,
                  !.pnl = b.pnl + pnl,
                  !.wins = wins,
                  !.winRate = Mul(Div(Num(wins), Num(1)), Hundred)]]

\* mutant: the bucket's winRate is computed before the count is incremented
BucketAddStaleRate(buckets, key, pnl) ==
  LET b    == buckets[key + 1]
      wins == b.wins + (IF pnl > 0 THEN 1 ELSE 0)
  IN [buckets EXCEPT ![key + 1] =
        [b EXCEPT !.trades = b.trades + 1,
                  !.pnl = b.pnl + pnl,
                  !.wins = wins,
                  !.winRate = IF b.trades = 0 THEN Zero
                              ELSE Mul(Div(Num(b.wins), Num(b.trades)), Hundred)]]

\* the body of trades.forEach for one bucket array and one bucket key
BucketAdd(buckets, key, pnl) ==
  LET b    == buckets[key + 1]
      wins == b.wins + (IF pnl > 0 THEN 1 ELSE 0)
  IN [buckets EXCEPT ![key + 1] =
        [b EXCEPT !.trades = b.trades + 1,
                  !.pnl = b.pnl + pnl,
                  !.wins = wins,
                  !.winRate = Mul(Div(Num(wins), Num(b.trades + 1)), Hundred)]]

RECURSIVE HourlyLoop(_, _, _)
HourlyLoop(trades, i, hourly) ==
  IF i > Len(trades) THEN hourly
  ELSE HourlyLoop(trades, i + 1,
         BucketAdd(hourly, DateTable[trades[i].entryDate].hour, PnlOf(trades[i])))

RECURSIVE DailyLoop(_, _, _)
DailyLoop(trades, i, daily) ==
  IF i > Len(trades) THEN daily
  ELSE DailyLoop(trades, i + 1,
         BucketAdd(daily, DateTable[trades[i].entryDate].day, PnlOf(trades[i])))

\* mutant: the empty report carries the fixed-size bucket arrays
EmptyReportWithBuckets ==
  [totalTrades |-> 0, winningTrades |-> 0, losingTrades |-> 0, winRate |-> Zero,
   totalPnl |-> 0, averageWin |-> Zero, averageLoss |-> Zero,
   largestWin |-> 0, largestLoss |-> 0, profitFactor |-> Zero,
   expectancy |-> Zero, averageRMultiple |-> Zero,
   currentStreak |-> 0, longestWinStreak |-> 0, longestLossStreak |-> 0,
   equityCurve |-> <<>>, monthlyPnl |-> <<>>, setupAnalysis |-> <<>>,
   timeAnalysis |-> [hourly |-> HourlyInit, daily |-> DailyInit, monthly |-> <<>>]]

\* the report returned when trades.length === 0
EmptyReport ==
  [totalTrades |-> 0, winningTrades |-> 0, losingTrades |-> 0, winRate |-> Zero,
   totalPnl |-> 0, averageWin |-> Zero, averageLoss |-> Zero,
   largestWin |-> 0, largestLoss |-> 0, profitFactor |-> Zero,
   expectancy |-> Zero, averageRMultiple |-> Zero,
   currentStreak |-> 0, longestWinStreak |-> 0, longestLossStreak |-> 0,
   equityCurve |-> <<>>, monthlyPnl |-> <<>>, setupAnalysis |-> <<>>,
   timeAnalysis |-> [hourly |-> <<>>, daily |-> <<>>, monthly |-> <<>>]]

\* the report of the authenticated path (totalPnlPercent and
\* averageHoldingPeriod, which read pnlPercent and duration, are left out)
Analytics(trades, u) ==
  IF Len(trades) = 0 THEN EmptyReport
  ELSE LET st == Streaks(trades)
           monthlyPnl == MonthlyPnl(trades)
       IN Metrics(trades) @@
          [currentStreak     |-> st.currentStreak,
           longestWinStreak  |-> st.longestWinStreak,
           longestLossStreak |-> st.longestLossStreak,
           equityCurve       |-> EquityCurve(trades, u),
           monthlyPnl        |-> monthlyPnl,
           setupAnalysis     |-> SetupAnalysis(trades),
           timeAnalysis      |-> [hourly  |-> HourlyLoop(trades, 1, HourlyInit),
                                  daily   |-> DailyLoop(trades, 1, DailyInit),
                                  monthly |-> MonthlyTime(monthlyPnl)]]

(***************************************************************************)
(* generateDemoAnalytics: the scalar metrics.  Amounts are in cents.  The  *)
(* chart data, drawn from Math.random(), and the fixed tables are left out.*)
(***************************************************************************)
DemoWinners ==
  <<75050, 124080, 89025, 44560, 118090, 32575, 215030,
    54020, 87540, 195060, 68015, 134580, 42590, 108025>>

DemoLosers ==
  <<0 - 28560, 0 - 44580, 0 - 18025, 0 - 52040, 0 - 89060, 0 - 12530,
    0 - 67580, 0 - 38590, 0 - 24015>>

RECURSIVE MaxSeq(_)
MaxSeq(s) == IF Len(s) = 1 THEN s[1] ELSE Max(Head(s), MaxSeq(Tail(s)))

RECURSIVE MinSeq(_)
MinSeq(s) == IF Len(s) = 1 THEN s[1] ELSE Min(Head(s), MinSeq(Tail(s)))

DemoAnalytics ==
  LET totalTrades   == 25
      closedTrades  == 23
      winningTrades == 14
      losingTrades  == 9
      totalWins     == Q(SumSeq(DemoWinners), 100)
      totalLosses   == Q(Abs(SumSeq(DemoLosers)), 100)
      totalPnl      == Sub(totalWins, totalLosses)
      averageWin    == Div(totalWins, Num(winningTrades))
      averageLoss   == Div(totalLosses, Num(losingTrades))
      profitFactor  == Div(totalWins, totalLosses)
      expectancy    == Div(totalPnl, Num(closedTrades))
  IN [totalTrades   |-> totalTrades,
      winningTrades |-> winningTrades,
      losingTrades  |-> losingTrades,
      winRate       |-> Mul(Div(Num(winningTrades), Num(closedTrades)), Hundred),
      totalPnl      |-> Round2(totalPnl),
      averageWin    |-> Round2(averageWin),
      averageLoss   |-> Round2(Neg(averageLoss)),
      largestWin    |-> Q(MaxSeq(DemoWinners), 100),
      largestLoss   |-> Q(MinSeq(DemoLosers), 100),
      profitFactor  |-> Round2(profitFactor),
      expectancy    |-> Round2(expectancy),
      averageRMultiple  |-> Q(185, 100),
      currentStreak     |-> 2,
      longestWinStreak  |-> 5,
      longestLossStreak |-> 3]

(***************************************************************************)
(* generatePerformanceSummary of GET /api/trades/export/excel.  symbolStats,*)
(* totalFees, maxDrawdown and averageHoldingPeriod are left out, except    *)
(* that the reduce over the symbols of an empty trade list throws.         *)
(***************************************************************************)
IsClosed(t) == ~t.isOpen

\* t => t.rMultiple (truthy)
RMultipleTruthy(t) == t.rMultiple # Null /\ Val(t.rMultiple) # Zero

RECURSIVE SumR(_)
SumR(trades) ==
  IF trades = <<>> THEN Zero ELSE Add(Val(Head(trades).rMultiple), SumR(Tail(trades)))

\* x || 0
OrZero(x) == IF IsNaN(x) \/ x = Zero THEN Zero ELSE x

\* mutant: the division is not guarded
SummaryProfitFactorUnguarded(totalWins, totalLosses) ==
  Div(Num(totalWins), Num(totalLosses))

\* profitFactor: totalLosses > 0 ? totalWins / totalLosses : 0
SummaryProfitFactor(totalWins, totalLosses) ==
  IF totalLosses > 0 THEN Div(Num(totalWins), Num(totalLosses)) ELSE Zero

generatePerformanceSummary(trades) ==
  LET closedTrades  == SelectSeq(trades, IsClosed)
      winningTrades == SelectSeq(closedTrades, IsWin)
      losingTrades  == SelectSeq(closedTrades, IsLoss)
      totalPnl      == SumPnl(closedTrades)
      totalWins     == SumPnl(winningTrades)
      totalLosses   == Abs(SumPnl(losingTrades))
      withR         == SelectSeq(closedTrades, RMultipleTruthy)
  IN [totalTrades   |-> Len(trades),
      winningTrades |-> Len(winningTrades),
      losingTrades  |-> Len(losingTrades),
      winRate       |-> Mul(Div(Num(Len(winningTrades)), Num(Len(closedTrades))),
                            Hundred),
      totalPnl      |-> totalPnl,
      totalPnlPercent |-> Mul(Div(Num(totalPnl), Num(25000)), Hundred),
      averageWin    |-> IF Len(winningTrades) > 0
                        THEN Div(Num(totalWins), Num(Len(winningTrades))) ELSE Zero,
      averageLoss   |-> IF Len(losingTrades) > 0
                        THEN Div(Num(totalLosses), Num(Len(losingTrades))) ELSE Zero,
      largestWin    |-> IF closedTrades = <<>> THEN NegInf
                        ELSE Num(MaxPnl(closedTrades)),
      largestLoss   |-> IF closedTrades = <<>> THEN PosInf
                        ELSE Num(MinPnl(closedTrades)),
      profitFactor  |-> SummaryProfitFactor(totalWins, totalLosses),
      expectancy    |-> IF Len(closedTrades) > 0
                        THEN Div(Num(totalPnl), Num(Len(closedTrades))) ELSE Zero,
      averageRMultiple |-> OrZero(Div(SumR(withR), Num(Len(withR))))]

(***************************************************************************)
(* The handlers                                                            *)
(***************************************************************************)
Users == {[startingCapital |-> Null],
          [startingCapital |-> Some(40)],
          [startingCapital |-> Some(1000)]}

\* new RealTimeMarketData(): ws = null (0); socks[i] is the readyState of the
\* i-th WebSocket constructed; timers counts the pending setTimeout
\* callbacks; hasKey is whether FINNHUB_API_KEY is set.  disconnected is a
\* history field: disconnect() was called on a connected instance and the
\* caller has not called connect() since.
RealTimeNew(hasKey) ==
  [hasKey |-> hasKey, ws |-> 0, socks |-> <<>>, timers |-> 0,
   disconnected |-> FALSE]

Init ==
  /\ db = <<>>
  /\ user \in Users
  /\ response = [kind |-> "none", status |-> 0]
  /\ rows = <<>>
  /\ rt = RealTimeNew(TRUE)

\* POST /api/trades with a session: validate, compute the fields, store
CreateTrade ==
  \E p \in Payloads, d \in Dates :
    /\ TradeSchemaOk(p)
    /\ d \notin DOMAIN db
    /\ Cardinality(DOMAIN db) < MaxTrades
    /\ db' = [x \in DOMAIN db \cup {d} |->
                IF x = d THEN CreatedTrade(p, d) ELSE db[x]]
    /\ response' = [kind |-> "trade", status |-> 201]
    /\ UNCHANGED <<user, rows, rt>>

\* POST /api/trades whose body fails tradeSchema.parse: 400
CreateTradeInvalid ==
  \E p \in Payloads :
    /\ ~TradeSchemaOk(p)
    /\ response' = [kind |-> "error", status |-> 400]
    /\ UNCHANGED <<db, user, rows, rt>>

\* POST /api/trades without a session: 201, nothing is stored
CreateTradeDemo ==
  \E p \in Payloads :
    /\ TradeSchemaOk(p)
    /\ response' = [kind |-> "trade", status |-> 201]
    /\ UNCHANGED <<db, user, rows, rt>>

\* mutant: the running balance is kept between requests
AnalyticsCarried(trades, u) ==
  Analytics(trades,
            IF response.kind = "analytics" /\ response.data.equityCurve # <<>>
            THEN [startingCapital |->
                    Some(response.data.equityCurve[Len(response.data.equityCurve)].balance)]
            ELSE u)

\* the report of the authenticated path, computed from the query result and
\* the user record only
AnalyticsReport(trades, u) == Analytics(trades, u)

\* GET /api/trades/analytics with a session
GetAnalytics ==
  /\ response' = [kind |-> "analytics", status |-> 200,
                  data |-> AnalyticsReport(findClosedTrades(db), user)]
  /\ UNCHANGED <<db, user, rows, rt>>

\* GET /api/trades/analytics without a session
GetDemoAnalytics ==
  /\ response' = [kind |-> "demoAnalytics", status |-> 200, data |-> DemoAnalytics]
  /\ UNCHANGED <<db, user, rows, rt>>

\* GET /api/trades/export/excel: the Performance Summary sheet.  The handler
\* builds its trade list itself ("In production, this would fetch from the
\* database"); the list is taken here to be the stored trades, open ones
\* included.
ExportExcel ==
  /\ response' = IF findAllTrades(db) = <<>>
                 THEN [kind |-> "error", status |-> 500]
                 ELSE [kind |-> "excel", status |-> 200,
                       data |-> generatePerformanceSummary(findAllTrades(db))]
  /\ UNCHANGED <<db, user, rows, rt>>

Next ==
  \/ CreateTrade
  \/ CreateTradeInvalid
  \/ CreateTradeDemo
  \/ GetAnalytics
  \/ GetDemoAnalytics
  \/ ExportExcel

Spec == Init /\ [][Next]_vars

(***************************************************************************)
(* The trade table in physical order.  Spec keys the store by entry        *)
(* instant, which is the order findMany returns; SpecOrder keeps in `rows` *)
(* the order in which the rows were inserted, so that the orderBy clause   *)
(* of the analytics query does the ordering.                               *)
(***************************************************************************)
MaxRows == 3

\* request bodies used with the physical table: open, +100, -50, flat
OrderPayloads ==
  { P("LONG", Null,      Null,    Null,     Null),
    P("LONG", Some(200), Some(4), Some(50), Some("breakout")),
    P("LONG", Some(50),  Some(4), Null,     Some("breakout")),
    P("LONG", Some(100), Some(4), Some(50), Null) }

OrderDates == 1..3

\* mutant: findMany without orderBy returns the rows in physical order
InsertionOrder(rs) == rs

\* orderBy: { entryDate: 'asc' }
OrderByEntryDate(rs) == Sort(rs, "entryDate")

\* prisma.trade.findMany({ where: { isOpen: false }, orderBy: { entryDate: 'asc' } })
\* on the physical table
findManyClosed(rs) == OrderByEntryDate(SelectSeq(rs, IsClosed))

\* POST /api/trades with a session: the row is appended to the table
InsertTrade ==
  \E p \in OrderPayloads, d \in OrderDates :
    /\ TradeSchemaOk(p)
    /\ Len(rows) < MaxRows
    /\ rows' = Append(rows, CreatedTrade(p, d))
    /\ response' = [kind |-> "trade", status |-> 201]
    /\ UNCHANGED <<db, user, rt>>

\* GET /api/trades/analytics with a session, on the physical table
GetAnalyticsOrdered ==
  /\ response' = [kind |-> "analytics", status |-> 200,
                  data |-> Analytics(findManyClosed(rows), user)]
  /\ UNCHANGED <<db, user, rows, rt>>

NextOrder ==
  \/ InsertTrade
  \/ GetAnalyticsOrdered

SpecOrder == Init /\ [][NextOrder]_vars

(***************************************************************************)
(* PUT /api/trades/[id]                                                    *)
(*                                                                         *)
(* The body is parsed by tradeUpdateSchema, the partial base schema without *)
(* refinements.  Its date fields are z.date() and the body comes from      *)
(* request.json(), which carries dates as strings: a body with exitDate is *)
(* refused.  notes and the other free-text fields are left out of the      *)
(* stored record.                                                          *)
(***************************************************************************)
U(side, entryPrice, quantity, exitPrice, exitDate, riskAmount) ==
  [side |-> side, entryPrice |-> entryPrice, quantity |-> quantity,
   exitPrice |-> exitPrice, exitDate |-> exitDate, riskAmount |-> riskAmount]

\* request bodies of PUT: only notes; only exitPrice; all the fields of a
\* closed trade
UpdatePayloads ==
  { U(Null, Null, Null, Null, Null, Null),
    U(Null, Null, Null, Some(130), Null, Null),
    U(Some("LONG"), Some(100), Some(1), Some(130), Some(4), Some(50)) }

\* tradeUpdateSchema.parse({ ...body, id }): exitDate must be a Date
tradeUpdateSchemaOk(u) ==
  /\ u.exitDate = Null
  /\ u.entryPrice # Null => Val(u.entryPrice) > 0
  /\ u.quantity # Null => Val(u.quantity) > 0
  /\ u.exitPrice # Null => Val(u.exitPrice) > 0
  /\ u.riskAmount # Null => Val(u.riskAmount) > 0

\* a field of the body if it is present, else the stored one
Given(new, old) == IF new # Null THEN new ELSE old

\* data: { ...tradeData, ...calculatedFields } applied to the stored trade t
UpdatedTrade(t, u) ==
  LET data == [t EXCEPT !.side = IF u.side # Null THEN Val(u.side) ELSE @,
                        !.entryPrice = IF u.entryPrice # Null THEN Val(u.entryPrice) ELSE @,
                        !.quantity = IF u.quantity # Null THEN Val(u.quantity) ELSE @,
                        !.exitPrice = Given(u.exitPrice, @),
                        !.exitDate = Given(u.exitDate, @),
                        !.riskAmount = Given(u.riskAmount, @)]
  IN IF /\ u.exitPrice # Null /\ u.exitDate # Null /\ u.entryPrice # Null
        /\ u.quantity # Null /\ u.side # Null
     THEN LET pnlData == calculatePnL(Val(u.side), Val(u.entryPrice), Val(u.exitPrice),
                                      Val(u.quantity), 0, 0)
          IN [data EXCEPT !.pnl = Some(pnlData.pnl),
                          !.isOpen = FALSE,
                          !.rMultiple = IF u.riskAmount # Null
                                        THEN calculateRMultiple(pnlData.pnl, Val(u.riskAmount))
                                        ELSE @]
     ELSE IF u.exitPrice = Null
     THEN [data EXCEPT !.isOpen = TRUE, !.pnl = Null, !.rMultiple = Null]
     ELSE data

\* PUT /api/trades/[id] with a session, for the trade entered at d and body u
UpdateTradeWith(d, u) ==
  /\ d \in DOMAIN db
  /\ tradeUpdateSchemaOk(u)
  /\ db' = [db EXCEPT ![d] = UpdatedTrade(db[d], u)]
  /\ response' = [kind |-> "update", status |-> 200]
  /\ UNCHANGED <<user, rows, rt>>

UpdateTrade == \E d \in Dates, u \in UpdatePayloads : UpdateTradeWith(d, u)

\* PUT whose body fails tradeUpdateSchema.parse: 400
UpdateTradeInvalid ==
  \E d \in Dates, u \in UpdatePayloads :
    /\ d \in DOMAIN db
    /\ ~tradeUpdateSchemaOk(u)
    /\ response' = [kind |-> "error", status |-> 400]
    /\ UNCHANGED <<db, user, rows, rt>>

\* PUT for an id that is not a trade of the user: 404
UpdateTradeNotFound ==
  \E d \in Dates :
    /\ d \notin DOMAIN db
    /\ response' = [kind |-> "error", status |-> 404]
    /\ UNCHANGED <<db, user, rows, rt>>

NextUpdate ==
  \/ CreateTrade
  \/ UpdateTrade
  \/ UpdateTradeInvalid
  \/ UpdateTradeNotFound

SpecUpdate == Init /\ [][NextUpdate]_vars

(***************************************************************************)
(* RealTimeMarketData: the WebSocket service.  Subscriptions and listeners *)
(* are left out; the 5000 ms of the reconnect delay is not measured, the   *)
(* timer fires at some later step.                                         *)
(***************************************************************************)
MaxSockets == 3

\* the body of connect() on the instance r
ConnectBody(r) ==
  IF ~r.hasKey THEN r
  ELSE [r EXCEPT !.socks = Append(@, "connecting"), !.ws = Len(r.socks) + 1]

\* ws.onclose: setTimeout(() => this.connect(), 5000)
OnClose(r) == [r EXCEPT !.timers = @ + 1]

\* the caller calls connect()
Connect ==
  /\ rt.hasKey => Len(rt.socks) < MaxSockets
  /\ rt' = [ConnectBody(rt) EXCEPT !.disconnected = FALSE]
  /\ UNCHANGED <<db, user, response, rows>>

\* the connection of socket i is established: onopen
SocketOpen ==
  \E i \in 1..MaxSockets :
    /\ i \in DOMAIN rt.socks
    /\ rt.socks[i] = "connecting"
    /\ rt' = [rt EXCEPT !.socks[i] = "open"]
    /\ UNCHANGED <<db, user, response, rows>>

\* the connection of socket i fails or is closed by the server: onerror,
\* then onclose
SocketLost ==
  \E i \in 1..MaxSockets :
    /\ i \in DOMAIN rt.socks
    /\ rt.socks[i] \in {"connecting", "open"}
    /\ rt' = OnClose([rt EXCEPT !.socks[i] = "closed"])
    /\ UNCHANGED <<db, user, response, rows>>

\* the caller calls disconnect(): if (this.ws) { this.ws.close(); this.ws = null }
Disconnect ==
  /\ rt' = IF rt.ws = 0 THEN rt
           ELSE [rt EXCEPT !.socks[rt.ws] = IF @ \in {"connecting", "open"}
                                            THEN "closing" ELSE @,
                           !.ws = 0,
                           !.disconnected = @ \/ rt.socks[rt.ws] = "open"]
  /\ UNCHANGED <<db, user, response, rows>>

\* the close event of a socket closed by close(): onclose
SocketClosed ==
  \E i \in 1..MaxSockets :
    /\ i \in DOMAIN rt.socks
    /\ rt.socks[i] = "closing"
    /\ rt' = OnClose([rt EXCEPT !.socks[i] = "closed"])
    /\ UNCHANGED <<db, user, response, rows>>

\* a reconnect timer fires: this.connect()
TimerFires ==
  /\ rt.timers > 0
  /\ rt.hasKey => Len(rt.socks) < MaxSockets
  /\ rt' = [ConnectBody(rt) EXCEPT !.timers = @ - 1]
  /\ UNCHANGED <<db, user, response, rows>>

InitSocket ==
  /\ db = <<>>
  /\ user = [startingCapital |-> Null]
  /\ response = [kind |-> "none", status |-> 0]
  /\ rows = <<>>
  /\ rt \in {RealTimeNew(k) : k \in BOOLEAN}

NextSocket ==
  \/ Connect
  \/ SocketOpen
  \/ SocketLost
  \/ Disconnect
  \/ SocketClosed
  \/ TimerFires

SpecSocket == InitSocket /\ [][NextSocket]_vars

(***************************************************************************)
(* Claims.  A response of kind "analytics" or "excel" was computed from    *)
(* the store as it is now: every handler that changes the store writes its *)
(* own response.                                                           *)
(***************************************************************************)
IsAnalytics == response.kind = "analytics"

IsDemoAnalytics == response.kind = "demoAnalytics"

IsExcel == response.kind = "excel"

\* the closed trades the analytics report was computed from, and their pnl
ClosedInput == findClosedTrades(db)

ClosedPnl == [i \in 1..Len(ClosedInput) |-> PnlOf(ClosedInput[i])]

\* the closed trades among those the summary was computed from
SummaryPnl ==
  LET all == findAllTrades(db)
      closed == SelectSeq(all, IsClosed)
  IN [i \in 1..Len(closed) |-> PnlOf(closed[i])]

RECURSIVE SumOver(_, _)
SumOver(f, S) ==
  IF S = {} THEN 0
  ELSE LET i == CHOOSE j \in S : TRUE IN f[i] + SumOver(f, S \ {i})

WinsOf(pn) == {i \in DOMAIN pn : pn[i] > 0}

LossesOf(pn) == {i \in DOMAIN pn : pn[i] < 0}

\* signed length of the maximal run of same-sign pnl ending at the last trade
TrailingRun(pn) ==
  LET n == Len(pn)
  IN IF n = 0 THEN 0
     ELSE IF pn[n] = 0 THEN 0
     ELSE LET Run(k) == \A j \in (n - k + 1)..n : Sign(pn[j]) = Sign(pn[n])
              k == CHOOSE m \in 1..n : Run(m) /\ (m < n => ~Run(m + 1))
          IN Sign(pn[n]) * k

\* C1: currentStreak is the signed length of the maximal run of same-sign
\* pnl that ends at the most recent trade (0 if that trade is flat or there
\* is no trade).
C1_CurrentStreakIsTrailingRun ==
  IsAnalytics => response.data.currentStreak = TrailingRun(ClosedPnl)

\* C2: with at least one win and no loss, profitFactor is the same finite
\* sentinel (0) in the analytics report and in the Excel performance summary;
\* it is never NaN or Infinity; with no closed trade it is 0.
NoLossSentinel == Zero

C2_Holds(pn, report) ==
  /\ IsFinite(report.profitFactor)
  /\ (WinsOf(pn) # {} /\ LossesOf(pn) = {} => report.profitFactor = NoLossSentinel)
  /\ (Len(pn) = 0 => report.profitFactor = Zero)

C2_ProfitFactorSentinel ==
  /\ IsAnalytics => C2_Holds(ClosedPnl, response.data)
  /\ IsExcel => C2_Holds(SummaryPnl, response.data)

\* C2 witness: a performance summary over winning trades only
C2_Witness ==
  /\ IsExcel
  /\ WinsOf(SummaryPnl) # {}
  /\ LossesOf(SummaryPnl) = {}
  /\ response.data.profitFactor = NoLossSentinel

\* C3: with a positive startingCapital the drawdown of every equity-curve
\* point lies in [0, 100].
C3_DrawdownInRange ==
  (IsAnalytics /\ user.startingCapital # Null /\ Val(user.startingCapital) > 0)
    => \A i \in 1..Len(response.data.equityCurve) :
         /\ Le(Zero, response.data.equityCurve[i].drawdown)
         /\ Le(response.data.equityCurve[i].drawdown, Hundred)

\* C4: for an empty closed-trade set the analytics handler answers 200 with
\* the canonical empty report: every listed scalar is 0 and every list empty.
C4_EmptyReport ==
  (IsAnalytics /\ ClosedInput = <<>>) =>
    /\ response.status = 200
    /\ response.data.totalTrades = 0
    /\ response.data.winningTrades = 0
    /\ response.data.losingTrades = 0
    /\ response.data.winRate = Zero
    /\ response.data.totalPnl = 0
    /\ response.data.profitFactor = Zero
    /\ response.data.expectancy = Zero
    /\ response.data.averageRMultiple = Zero
    /\ response.data.currentStreak = 0
    /\ response.data.longestWinStreak = 0
    /\ response.data.longestLossStreak = 0
    /\ response.data.equityCurve = <<>>
    /\ response.data.monthlyPnl = <<>>
    /\ response.data.setupAnalysis = <<>>
    /\ response.data.timeAnalysis.hourly = <<>>
    /\ response.data.timeAnalysis.daily = <<>>
    /\ response.data.timeAnalysis.monthly = <<>>

\* C4 witness: analytics answered while the store holds only open trades
C4_Witness ==
  /\ IsAnalytics
  /\ ClosedInput = <<>>
  /\ DOMAIN db # {}

FixedBuckets(hourly, daily) ==
  /\ Len(hourly) = 24
  /\ \A h \in 0..23 : hourly[h + 1].hour = h
  /\ Len(daily) = 7
  /\ \A d \in 0..6 : daily[d + 1].day = d
  /\ \A i \in 1..24 : hourly[i].trades = 0 =>
        hourly[i].pnl = 0 /\ hourly[i].winRate = Zero
  /\ \A i \in 1..7 : daily[i].trades = 0 =>
        daily[i].pnl = 0 /\ daily[i].winRate = Zero

\* C5 as stated: for every closed-trade input, the empty one included, the
\* hourly analysis has the 24 buckets 0..23 and the daily analysis the 7
\* buckets 0..6, unused buckets being emitted with zeros.
C5_Original ==
  IsAnalytics => FixedBuckets(response.data.timeAnalysis.hourly,
                              response.data.timeAnalysis.daily)

\* C5 amended: for every non-empty closed-trade input the hourly analysis
\* has the 24 buckets 0..23 and the daily analysis the 7 buckets 0..6, unused
\* buckets being emitted with zeros; for the empty input both lists are empty.
C5_FixedBucketsWhenNonEmpty ==
  IsAnalytics =>
    IF ClosedInput = <<>>
    THEN /\ response.data.timeAnalysis.hourly = <<>>
         /\ response.data.timeAnalysis.daily = <<>>
    ELSE FixedBuckets(response.data.timeAnalysis.hourly,
                      response.data.timeAnalysis.daily)

\* C5 witness: a report over trades that leave hour 0 empty and fill hour 9
C5_Witness ==
  /\ IsAnalytics
  /\ ClosedInput # <<>>
  /\ response.data.timeAnalysis.hourly[1].trades = 0
  /\ response.data.timeAnalysis.hourly[10].trades > 0

BucketField(buckets, name) ==
  [i \in 1..Len(buckets) |->
     IF name = "trades" THEN buckets[i].trades ELSE buckets[i].pnl]

BucketTotal(buckets, name) ==
  SumOver(BucketField(buckets, name), 1..Len(buckets))

\* C6: the trade counts of the hourly buckets sum to totalTrades, and so do
\* those of the daily buckets; the bucket pnl sums to totalPnl.
C6_BucketsPartitionTrades ==
  IsAnalytics =>
    /\ BucketTotal(response.data.timeAnalysis.hourly, "trades")
         = response.data.totalTrades
    /\ BucketTotal(response.data.timeAnalysis.daily, "trades")
         = response.data.totalTrades
    /\ BucketTotal(response.data.timeAnalysis.hourly, "pnl")
         = response.data.totalPnl
    /\ BucketTotal(response.data.timeAnalysis.daily, "pnl")
         = response.data.totalPnl
    /\ response.data.totalTrades = Len(ClosedInput)

\* C6 witness: three trades, two of them in the same hourly bucket
C6_Witness ==
  /\ IsAnalytics
  /\ response.data.totalTrades = 3
  /\ \E i \in 1..24 : response.data.timeAnalysis.hourly[i].trades = 2
  /\ response.data.totalPnl # 0

\* C7: winRate is winningTrades / totalTrades * 100 for a non-empty set,
\* 0 for the empty set, and always within [0, 100].
C7_WinRate ==
  IsAnalytics =>
    /\ Len(ClosedPnl) > 0 =>
         response.data.winRate
           = Q(100 * Cardinality(WinsOf(ClosedPnl)), Len(ClosedPnl))
    /\ Len(ClosedPnl) = 0 => response.data.winRate = Zero
    /\ Le(Zero, response.data.winRate)
    /\ Le(response.data.winRate, Hundred)

\* C7 witness: a report with a win, a loss and a flat trade
C7_Witness ==
  /\ IsAnalytics
  /\ Len(ClosedPnl) = 3
  /\ Cardinality(WinsOf(ClosedPnl)) = 1
  /\ Cardinality(LossesOf(ClosedPnl)) = 1
  /\ response.data.winRate = Q(100, 3)

\* C8: with at least one losing trade, profitFactor is the sum of the
\* winning pnl over the magnitude of the sum of the losing pnl.
C8_ProfitFactor ==
  (IsAnalytics /\ LossesOf(ClosedPnl) # {}) =>
    response.data.profitFactor
      = Q(SumOver(ClosedPnl, WinsOf(ClosedPnl)),
          Abs(SumOver(ClosedPnl, LossesOf(ClosedPnl))))

\* C8 witness: pnl = [+100, -50, +30] gives 130/50 = 2.6
C8_Witness ==
  /\ IsAnalytics
  /\ ClosedPnl = <<100, 0 - 50, 30>>
  /\ response.data.profitFactor = Q(26, 10)

\* C9: for a non-empty set totalPnl is the sum of pnl and expectancy is
\* totalPnl / totalTrades, so expectancy * totalTrades = totalPnl; for the
\* empty set expectancy is 0.
C9_TotalPnlAndExpectancy ==
  IsAnalytics =>
    /\ Len(ClosedPnl) > 0 =>
         /\ response.data.totalPnl = SumOver(ClosedPnl, DOMAIN ClosedPnl)
         /\ response.data.expectancy
              = Q(SumOver(ClosedPnl, DOMAIN ClosedPnl), Len(ClosedPnl))
         /\ Mul(response.data.expectancy, Num(response.data.totalTrades))
              = Num(response.data.totalPnl)
    /\ Len(ClosedPnl) = 0 => response.data.expectancy = Zero

\* C9 witness: pnl = [+100, -50, +30] gives totalPnl 80 and expectancy 80/3
C9_Witness ==
  /\ IsAnalytics
  /\ ClosedPnl = <<100, 0 - 50, 30>>
  /\ response.data.totalPnl = 80
  /\ response.data.expectancy = Q(80, 3)

\* C10: averageLoss is never positive in a report, real or demo: 0 without a
\* losing trade, else the negated mean magnitude of the losing pnl.
C10_AverageLossNotPositive ==
  /\ IsDemoAnalytics => Le(response.data.averageLoss, Zero)
  /\ IsAnalytics =>
       /\ Le(response.data.averageLoss, Zero)
       /\ LossesOf(ClosedPnl) = {} => response.data.averageLoss = Zero
       /\ LossesOf(ClosedPnl) # {} =>
            response.data.averageLoss
              = Neg(Q(Abs(SumOver(ClosedPnl, LossesOf(ClosedPnl))),
                      Cardinality(LossesOf(ClosedPnl))))

\* indices of the closed trades of one setup, and of one calendar month
SetupIdx(id) == {i \in DOMAIN ClosedInput : ClosedInput[i].setupId = Some(id)}

MonthIdx(ym) == {i \in DOMAIN ClosedInput : DateTable[ClosedInput[i].entryDate].ym = ym}

RECURSIVE SumROver(_)
SumROver(S) ==
  IF S = {} THEN Zero
  ELSE LET i == CHOOSE j \in S : TRUE
       IN Add(Val(ClosedInput[i].rMultiple), SumROver(S \ {i}))

\* mean of rMultiple over the trades of S that have one, 0 if none has
MeanR(S) ==
  LET withR == {i \in S : ClosedInput[i].rMultiple # Null}
  IN IF withR = {} THEN Zero ELSE Div(SumROver(withR), Num(Cardinality(withR)))

\* C11: every setup group's expectancy is the group's accumulated pnl divided
\* by the group's tradeCount, whatever the size of the group.
C11_SetupExpectancy ==
  IsAnalytics =>
    \A g \in 1..Len(response.data.setupAnalysis) :
      response.data.setupAnalysis[g].expectancy
        = Q(response.data.setupAnalysis[g].pnl, response.data.setupAnalysis[g].trades)

\* C12: every setup group's averageRMultiple is the mean of rMultiple over
\* the group's trades that have one (0 if none), whatever their order.
C12_SetupAverageRMultiple ==
  IsAnalytics =>
    \A g \in 1..Len(response.data.setupAnalysis) :
      response.data.setupAnalysis[g].averageRMultiple
        = MeanR(SetupIdx(response.data.setupAnalysis[g].setupId))

\* position of a setupId in ascending string order
SetupRank(id) == IF id = "breakout" THEN 1 ELSE 2

\* a comes strictly before b: by pnl descending, then tradeCount descending,
\* then setupId ascending
SetupOrdered(a, b) ==
  \/ a.pnl > b.pnl
  \/ a.pnl = b.pnl /\ a.trades > b.trades
  \/ a.pnl = b.pnl /\ a.trades = b.trades /\ SetupRank(a.setupId) < SetupRank(b.setupId)

\* C13: the setup analysis is totally ordered by pnl descending, then
\* tradeCount descending, then setupId ascending.
C13_SetupTotalOrder ==
  IsAnalytics =>
    \A g \in 1..Len(response.data.setupAnalysis), h \in 1..Len(response.data.setupAnalysis) :
      g < h => SetupOrdered(response.data.setupAnalysis[g], response.data.setupAnalysis[h])

\* C14: every monthly bucket of the time analysis reports
\* winRate = wins / tradeCount * 100 over the trades of its (year, month).
C14_MonthlyWinRate ==
  IsAnalytics =>
    \A m \in 1..Len(response.data.timeAnalysis.monthly) :
      LET row == response.data.timeAnalysis.monthly[m]
          idx == MonthIdx(row.year * 100 + row.month)
      IN row.winRate
           = Q(100 * Cardinality({i \in idx : ClosedPnl[i] > 0}), Cardinality(idx))

\* the rows of the physical table rearranged by the permutation f
Permuted(f) == [i \in 1..Len(rows) |-> rows[f[i]]]

DistinctEntryDates ==
  \A i \in 1..Len(rows), j \in 1..Len(rows) :
    i # j => rows[i].entryDate # rows[j].entryDate

\* the outputs that depend on the order of the trades
OrderDependent(r) ==
  <<r.equityCurve, r.longestWinStreak, r.longestLossStreak, r.currentStreak>>

\* C15: for closed trades with distinct entryDates the equity curve, the
\* longest streaks and the current streak are the same for every order in
\* which the trades are stored (the query orders them by entryDate), and
\* the request answers 200 on any stored order.
C15_OrderIndependent ==
  (IsAnalytics /\ DistinctEntryDates) =>
    /\ response.status = 200
    /\ \A f \in Permutations(1..Len(rows)) :
         OrderDependent(Analytics(findManyClosed(Permuted(f)), user))
           = OrderDependent(response.data)

C15_Witness ==
  /\ IsAnalytics
  /\ DistinctEntryDates
  /\ Len(rows) = 3
  /\ \A i \in 1..3 : ~rows[i].isOpen
  /\ rows[1].entryDate > rows[2].entryDate
  /\ rows[2].entryDate < rows[3].entryDate
  /\ PnlOf(rows[1]) > 0
  /\ PnlOf(rows[2]) < 0
  /\ PnlOf(rows[3]) > 0
  /\ Len(response.data.equityCurve) = 3

\* C16: every stored trade has isOpen true exactly when exitDate is absent,
\* and pnl defined exactly when isOpen is false.
C16_OpenIffNoExitDate ==
  \A d \in DOMAIN db :
    /\ db[d].isOpen <=> (db[d].exitDate = Null)
    /\ (db[d].pnl # Null) <=> ~db[d].isOpen

\* number of closed trades in the store
ClosedCount == Cardinality({d \in DOMAIN db : ~db[d].isOpen})

\* C17: in the analytics report and in the Excel performance summary,
\* totalTrades is the number of closed trades and
\* winRate * totalTrades = 100 * winningTrades.
C17_TotalTradesClosedOnly ==
  (IsAnalytics \/ IsExcel) =>
    /\ response.data.totalTrades = ClosedCount
    /\ Mul(response.data.winRate, Num(response.data.totalTrades))
         = Num(100 * response.data.winningTrades)

\* the balance the claim expects the curve to start from
ExpectedStart ==
  IF user.startingCapital = Null THEN 10000 ELSE Val(user.startingCapital)

\* C18: the analytics request answers 200 with or without a configured
\* startingCapital; the running balance and the peak both start at 10000
\* when none is configured and at the configured positive value otherwise
\* (seen at the first equity point: balance = start + pnl, and its drawdown
\* is measured from max(start, balance)).
C18_StartingCapitalDefault ==
  IsAnalytics =>
    /\ response.status = 200
    /\ response.data.equityCurve # <<>> =>
         LET first == response.data.equityCurve[1]
         IN /\ first.balance = ExpectedStart + first.pnl
            /\ first.drawdown = IF first.pnl >= 0 THEN Zero
                                ELSE Q(100 * (0 - first.pnl), ExpectedStart)

C18_Witness ==
  /\ IsAnalytics
  /\ user.startingCapital = Null
  /\ response.data.equityCurve # <<>>
  /\ response.data.equityCurve[1].balance = 9950
  /\ response.data.equityCurve[1].drawdown = Q(1, 2)

LongestRun(pn, sg) ==
  LET IsRun(i, j) == \A k \in i..j : Sign(pn[k]) = sg
      lens == {0} \cup {p[2] - p[1] + 1 :
                          p \in {q \in (DOMAIN pn) \X (DOMAIN pn) :
                                   q[1] <= q[2] /\ IsRun(q[1], q[2])}}
  IN CHOOSE m \in lens : \A x \in lens : x <= m

\* C20: longestWinStreak is the length of the longest run of consecutive
\* trades with pnl > 0 in chronological order and longestLossStreak the
\* longest run with pnl < 0; a flat trade ends both runs.
C20_LongestStreaks ==
  IsAnalytics =>
    /\ response.data.longestWinStreak = LongestRun(ClosedPnl, 1)
    /\ response.data.longestLossStreak = LongestRun(ClosedPnl, 0 - 1)

C20_Witness ==
  /\ IsAnalytics
  /\ Len(ClosedPnl) = 3
  /\ ClosedPnl[1] > 0
  /\ ClosedPnl[2] = 0
  /\ ClosedPnl[3] > 0
  /\ response.data.longestWinStreak = 1
  /\ response.data.longestLossStreak = 0

\* C21: the equity curve has one point per closed trade, in trade order;
\* point i has trades = i, pnl = the i-th trade's pnl and
\* balance = starting capital + the sum of the first i pnls.
C21_EquityCurvePoints ==
  IsAnalytics =>
    /\ Len(response.data.equityCurve) = Len(ClosedPnl)
    /\ \A i \in 1..Len(ClosedPnl) :
         /\ response.data.equityCurve[i].trades = i
         /\ response.data.equityCurve[i].pnl = ClosedPnl[i]
         /\ response.data.equityCurve[i].date = DateTable[ClosedInput[i].entryDate].date
         /\ response.data.equityCurve[i].balance
              = ExpectedStart + SumOver(ClosedPnl, 1..i)

\* C21 witness: pnl = [+100, -50, +30] with startingCapital 1000
C21_Witness ==
  /\ IsAnalytics
  /\ user.startingCapital = Some(1000)
  /\ ClosedPnl = <<100, 0 - 50, 30>>
  /\ [i \in 1..3 |-> response.data.equityCurve[i].balance] = <<1100, 1050, 1080>>

\* the running maximum of the starting capital and the balances up to point i
RECURSIVE PeakAt(_)
PeakAt(i) ==
  IF i = 0 THEN ExpectedStart
  ELSE Max(PeakAt(i - 1), response.data.equityCurve[i].balance)

\* C22: the peak of the drawdown fold starts at the starting capital, never
\* decreases, is positive, and after each point is the maximum of the
\* starting capital and the balances so far; each point's drawdown is
\* (peak - balance) / peak * 100 against that peak, which is 0 exactly
\* where the balance is at the running maximum.
C22_DrawdownAgainstRunningPeak ==
  IsAnalytics =>
    \A i \in 1..Len(response.data.equityCurve) :
      LET point == response.data.equityCurve[i]
      IN /\ PeakAt(i) >= PeakAt(i - 1)
         /\ PeakAt(i) > 0
         /\ point.drawdown = Q(100 * (PeakAt(i) - point.balance), PeakAt(i))
         /\ (point.drawdown = Zero) <=> (point.balance = PeakAt(i))

\* C22 witness: the balance rises above the start, falls, and recovers part
C22_Witness ==
  /\ IsAnalytics
  /\ user.startingCapital = Some(1000)
  /\ ClosedPnl = <<100, 0 - 50, 30>>
  /\ [i \in 1..3 |-> response.data.equityCurve[i].drawdown]
       = <<Zero, Q(5000, 1100), Q(2000, 1100)>>

\* C23: winningTrades counts the closed trades with pnl > 0, losingTrades
\* those with pnl < 0; a flat trade or one without pnl is in neither, so
\* winningTrades + losingTrades + flat = totalTrades.
C23_WinLossCounts ==
  IsAnalytics =>
    /\ response.data.winningTrades = Cardinality(WinsOf(ClosedPnl))
    /\ response.data.losingTrades = Cardinality(LossesOf(ClosedPnl))
    /\ response.data.winningTrades + response.data.losingTrades
         + Cardinality({i \in DOMAIN ClosedInput :
                          ClosedInput[i].pnl = Null \/ ClosedInput[i].pnl = Some(0)})
         = response.data.totalTrades

\* C23 witness: a win, a flat trade and a closed trade without pnl
C23_Witness ==
  /\ IsAnalytics
  /\ response.data.totalTrades = 3
  /\ response.data.winningTrades = 1
  /\ response.data.losingTrades = 0
  /\ \E i \in DOMAIN ClosedInput : ClosedInput[i].pnl = Null
  /\ \E i \in DOMAIN ClosedInput : ClosedInput[i].pnl = Some(0)

\* the closed trades entered in hour h, and on weekday d
HourIdx(h) == {i \in DOMAIN ClosedInput : DateTable[ClosedInput[i].entryDate].hour = h}

DayIdx(d) == {i \in DOMAIN ClosedInput : DateTable[ClosedInput[i].entryDate].day = d}

\* bucket b holds the count, the wins and the win rate of the trades idx
BucketMatches(b, idx) ==
  /\ b.trades = Cardinality(idx)
  /\ b.wins = Cardinality({i \in idx : ClosedPnl[i] > 0})
  /\ b.wins <= b.trades
  /\ b.winRate = IF idx = {} THEN Zero ELSE Q(100 * b.wins, b.trades)

\* C24: every hourly and daily bucket that received a trade reports
\* winRate = wins / tradeCount * 100 with wins the number of its trades
\* with pnl > 0, every bucket that received none reports 0, and wins never
\* exceeds tradeCount.
C24_BucketWinRate ==
  IsAnalytics =>
    /\ \A k \in 1..Len(response.data.timeAnalysis.hourly) :
         BucketMatches(response.data.timeAnalysis.hourly[k],
                       HourIdx(response.data.timeAnalysis.hourly[k].hour))
    /\ \A k \in 1..Len(response.data.timeAnalysis.daily) :
         BucketMatches(response.data.timeAnalysis.daily[k],
                       DayIdx(response.data.timeAnalysis.daily[k].day))

\* C24 witness: the 9 o'clock bucket holds a win and a loss, another is empty
C24_Witness ==
  /\ IsAnalytics
  /\ Len(response.data.timeAnalysis.hourly) = 24
  /\ response.data.timeAnalysis.hourly[10].trades = 2
  /\ response.data.timeAnalysis.hourly[10].wins = 1
  /\ response.data.timeAnalysis.hourly[10].winRate = Num(50)
  /\ response.data.timeAnalysis.hourly[1].trades = 0
  /\ \E k \in 1..7 : response.data.timeAnalysis.daily[k].winRate = Hundred

\* the months in which a closed trade was entered
ClosedMonths == {DateTable[ClosedInput[i].entryDate].ym : i \in DOMAIN ClosedInput}

\* C25: monthlyPnl and timeAnalysis.monthly hold one bucket per month in
\* which a closed trade was entered and none for any other month, both in
\* ascending calendar order; the bucket counts sum to totalTrades and the
\* bucket pnls to totalPnl.
C25_MonthlyBuckets ==
  IsAnalytics =>
    LET mp == response.data.monthlyPnl
        mt == response.data.timeAnalysis.monthly
    IN /\ {mp[k].month : k \in 1..Len(mp)} = ClosedMonths
       /\ Len(mp) = Cardinality(ClosedMonths)
       /\ \A k \in 1..Len(mp) : \A l \in 1..Len(mp) : k < l => mp[k].month < mp[l].month
       /\ \A k \in 1..Len(mp) :
            /\ mp[k].trades = Cardinality(MonthIdx(mp[k].month))
            /\ mp[k].pnl = SumOver(ClosedPnl, MonthIdx(mp[k].month))
       /\ Len(mt) = Len(mp)
       /\ \A k \in 1..Len(mt) :
            /\ mt[k].year * 100 + mt[k].month = mp[k].month
            /\ mt[k].trades = mp[k].trades
            /\ mt[k].pnl = mp[k].pnl
       /\ BucketTotal(mp, "trades") = response.data.totalTrades
       /\ BucketTotal(mp, "pnl") = response.data.totalPnl
       /\ BucketTotal(mt, "trades") = response.data.totalTrades
       /\ BucketTotal(mt, "pnl") = response.data.totalPnl

\* C25 witness: two trades in July 2024 and one in August 2024
C25_Witness ==
  /\ IsAnalytics
  /\ Len(response.data.monthlyPnl) = 2
  /\ response.data.monthlyPnl[1].month = 202407
  /\ response.data.monthlyPnl[1].trades = 2
  /\ response.data.monthlyPnl[2].month = 202408
  /\ response.data.timeAnalysis.monthly[2].month = 8
  /\ response.data.timeAnalysis.monthly[2].year = 2024
  /\ response.data.totalPnl # 0

\* the setups that occur among the closed trades
ClosedSetups ==
  {Val(ClosedInput[i].setupId) : i \in {j \in DOMAIN ClosedInput : ClosedInput[j].setupId # Null}}

\* C26: the setup analysis has exactly one group per setupId occurring among
\* the closed trades, a trade without setup is in no group, and each group
\* reports the number of its trades, its wins (pnl > 0), the sum of its pnl
\* and winRate = wins / tradeCount * 100.
C26_SetupGroups ==
  IsAnalytics =>
    LET sa == response.data.setupAnalysis
    IN /\ {sa[g].setupId : g \in 1..Len(sa)} = ClosedSetups
       /\ Len(sa) = Cardinality(ClosedSetups)
       /\ \A g \in 1..Len(sa) :
            LET idx == SetupIdx(sa[g].setupId)
                w   == Cardinality({i \in idx : ClosedPnl[i] > 0})
            IN /\ sa[g].trades = Cardinality(idx)
               /\ sa[g].wins = w
               /\ sa[g].pnl = SumOver(ClosedPnl, idx)
               /\ sa[g].winRate = Q(100 * w, Cardinality(idx))

\* C26 witness: two breakout trades (one win), a trade without setup
C26_Witness ==
  /\ IsAnalytics
  /\ Len(ClosedInput) = 3
  /\ \E i \in 1..3 : ClosedInput[i].setupId = Null
  /\ Len(response.data.setupAnalysis) = 1
  /\ response.data.setupAnalysis[1].setupId = "breakout"
  /\ response.data.setupAnalysis[1].trades = 2
  /\ response.data.setupAnalysis[1].winRate = Num(50)

\* C27: the streak outputs agree with each other and with the counts:
\* a positive currentStreak is at most longestWinStreak, which is at most
\* winningTrades; a negative one, negated, is at most longestLossStreak,
\* which is at most losingTrades; a longest streak is at least 1 exactly
\* when there is a trade of its kind.
C27_StreaksConsistent ==
  IsAnalytics =>
    LET r == response.data
    IN /\ r.longestWinStreak <= r.winningTrades
       /\ r.longestLossStreak <= r.losingTrades
       /\ r.currentStreak > 0 => r.currentStreak <= r.longestWinStreak
       /\ r.currentStreak < 0 => 0 - r.currentStreak <= r.longestLossStreak
       /\ (r.longestWinStreak >= 1) <=> (r.winningTrades >= 1)
       /\ (r.longestLossStreak >= 1) <=> (r.losingTrades >= 1)

\* C27 witness: a win followed by two losses
C27_Witness ==
  /\ IsAnalytics
  /\ response.data.winningTrades = 1
  /\ response.data.losingTrades = 2
  /\ response.data.longestLossStreak = 2
  /\ response.data.longestWinStreak = 1
  /\ response.data.currentStreak # 0

\* C28: for a non-empty closed-trade sequence the last equity point's
\* balance is the starting capital (10000 when unset) plus totalPnl, and
\* its trades field is totalTrades.
C28_CurveAgreesWithMetrics ==
  (IsAnalytics /\ Len(ClosedInput) > 0) =>
    LET curve == response.data.equityCurve
    IN /\ curve # <<>>
       /\ curve[Len(curve)].balance = ExpectedStart + response.data.totalPnl
       /\ curve[Len(curve)].trades = response.data.totalTrades

\* C28 witness: three trades, no startingCapital configured
C28_Witness ==
  /\ IsAnalytics
  /\ user.startingCapital = Null
  /\ response.data.totalTrades = 3
  /\ response.data.totalPnl = 80
  /\ response.data.equityCurve[3].balance = 10080

\* the body has none of the exit fields
NoExitFields(u) == u.exitPrice = Null /\ u.exitDate = Null

\* C29: a PUT whose body has none of the exit fields leaves the stored
\* trade's isOpen, pnl and rMultiple as they were (pnlPercent and duration
\* are written together with pnl): a closed trade stays closed and keeps
\* its pnl.
C29_UpdateWithoutExitFieldsKeepsPnl ==
  [][\A d \in Dates, u \in UpdatePayloads :
       (NoExitFields(u) /\ UpdateTradeWith(d, u)) =>
         /\ db'[d].isOpen = db[d].isOpen
         /\ db'[d].pnl = db[d].pnl
         /\ db'[d].rMultiple = db[d].rMultiple]_vars

\* C30: once disconnect() was called on a connected instance, no WebSocket
\* is constructed until the caller calls connect() again (which clears
\* rt.disconnected): the close caused by disconnect() starts no reconnect.
C30_NoReconnectAfterDisconnect ==
  [][(rt.disconnected /\ rt'.disconnected) => Len(rt'.socks) = Len(rt.socks)]_vars

====
